---- MODULE Spec2Model ----
(***************************************************************************)
(* PubNWR: the playout-file watcher (handlers/file_handler.py), the track  *)
(* pipeline (main.py, handlers/playout_handler.py, models/track_info.py)   *)
(* and the publish coordinator (services/social_publisher.py).             *)
(*                                                                         *)
(* Strings are sequences of one-character strings, so that strip(),        *)
(* _clean_title() and the "artist:title" concatenation are computed.       *)
(* Time is counted in ticks of 0.5 s, the sleep of the stability loop.     *)
(***************************************************************************)
EXTENDS Integers, Sequences, FiniteSets, TLC

VARIABLES
    \* ---- track pipeline (PlayoutData, process_new_track_data) ----
    pc,                 \* position of the processing cycle
    svc_idx,            \* index of the next service in the publish loop
    data,               \* playout_data.data while a cycle is running
    now_playing,        \* the TrackInfo of the running cycle
    state,              \* playout_data.state, the session state
    ledger,             \* table "realtime": rows per service
    publish_dir,        \* artwork files in root_publish_path
    playlist,           \* content of playlist.json
    uuid_next,          \* number of uuid4 names handed out so far
    do_publish_socials, \* configuration
    disabled_services,  \* configuration
    faults_left,        \* remaining environment faults
    cyc,                \* observation of the current/last cycle
    publisher,          \* the SocialPublisher object of the running cycle
    hist,               \* history of the publish calls, recorded when
                        \* hist.on. sent: per service, the track of the last
                        \* Publisher call that reported success and how many
                        \* such calls in a row carried it; lookup_err,
                        \* pub_fail: the services whose ledger lookup failed,
                        \* whose Publisher returned failure or raised, in the
                        \* current/last cycle
    restarts            \* process restarts so far: clean, and torn (the
                        \* process stopped between the DELETE and the INSERT
                        \* of a ledger update)

VARIABLES
    \* ---- file watcher (FTPAwareFileHandler, PollingObserver) ----
    file,               \* the playout file on disk
    event_queue,        \* events the observer has not dispatched yet
    processing_lock,    \* self.processing_lock
    current_state,      \* self.current_state, the last processed FileState
    current_age,        \* ticks since current_state was read
    last_event_age,     \* current_time - self.last_event_time
    wpc,                \* position of the observer's dispatch thread
    elapsed,            \* time.time() - start_time of the running attempt
    previous_state,     \* previous_state of _wait_for_file_stability
    stable_count,       \* stable_count of _wait_for_file_stability
    stable_state,       \* the FileState the attempt returned
    stable_age,         \* ticks since stable_state was read
    accepted_age,       \* ticks since an event last started an attempt
    obs,                \* observation of the running/last attempt
    cb,                 \* observation of the callback in the running/last
                        \* attempt: called; same: the content it read from
                        \* the file is the content of the stable snapshot;
                        \* by: the caller whose call entered it
    loop_state          \* the state dict of main.py as the watch loop of
                        \* start_file_watch reads it, ages in ticks

pvars == <<pc, svc_idx, data, now_playing, state, ledger, publish_dir,
           playlist, uuid_next, do_publish_socials, disabled_services,
           faults_left, cyc, publisher, hist, restarts>>

wvars == <<file, event_queue, processing_lock, current_state, current_age,
           last_event_age, wpc, elapsed, previous_state, stable_count,
           stable_state, stable_age, accepted_age, obs, cb, loop_state>>

vars == <<pvars, wvars>>

\* ------------------------------------------------------------------
\* Bounds
\* ------------------------------------------------------------------
MaxUuid == 2
MaxFaults == 1
MaxQueue == 1
\* the longest track of the watch loop's clock, in ticks
TrackTicks == 1

\* ------------------------------------------------------------------
\* Strings
\* ------------------------------------------------------------------
None == <<"None">>
Colon == <<":">>

IsSpace(c) == c = " "

RECURSIVE lstrip(_)
lstrip(s) == IF s = <<>> THEN s
             ELSE IF IsSpace(Head(s)) THEN lstrip(Tail(s)) ELSE s

RECURSIVE rstrip(_)
rstrip(s) == IF s = <<>> THEN s
             ELSE IF IsSpace(s[Len(s)]) THEN rstrip(SubSeq(s, 1, Len(s) - 1))
             ELSE s

strip(s) == rstrip(lstrip(s))

\* a split on the round bracket only
RECURSIVE split_head_paren(_)
split_head_paren(s) == IF s = <<>> THEN s
                       ELSE IF Head(s) = "(" THEN <<>>
                       ELSE <<Head(s)>> \o split_head_paren(Tail(s))

\* re.split(r'[\(\[\<]', title)[0]
RECURSIVE split_head(_)
split_head(s) == IF s = <<>> THEN s
                 ELSE IF Head(s) \in {"(", "[", "<"} THEN <<>>
                 ELSE <<Head(s)>> \o split_head(Tail(s))

clean_title(title) == strip(split_head(title))

\* ------------------------------------------------------------------
\* Playout file contents (decoded JSON objects)
\* ------------------------------------------------------------------
DurAbsent == -1          \* no "duration" key
DurNonNumeric == -2      \* a value int() rejects
Durations == {180, DurAbsent, DurNonNumeric}

StartTimes == {"ok", "badformat", "nonstring"}

Artists == {<<" ">>, <<"a">>, <<"b">>, <<"s">>}
Titles == {<<>>, <<"t">>, <<"t", " ", "(", "x">>, <<"k">>}
Programs == {"p", "q"}

skip_artists == {<<"s">>}
skip_titles == {<<"k">>}

AllSnapshots == [artist : Artists, title : Titles, program : Programs,
                 starttime : StartTimes, duration : Durations]

\* The contents the playout tool writes: songs of artists a and b, the same
\* title with an annotation, a skipped artist, a skipped title, non-song
\* content with a blank artist or an empty title, and one song carrying each
\* start-time or duration defect.
Identities ==
    {<<(<<"a">>), (<<"t">>)>>, <<(<<"a">>), (<<"t", " ", "(", "x">>)>>,
     <<(<<"b">>), (<<"t">>)>>, <<(<<"s">>), (<<"t">>)>>,
     <<(<<"a">>), (<<"k">>)>>, <<(<<" ">>), (<<"t">>)>>,
     <<(<<"a">>), (<<>>)>>}

Snapshots ==
    {d \in AllSnapshots :
        /\ <<d.artist, d.title>> \in Identities
        /\ \/ d.starttime = "ok" /\ d.duration = 180
           \/ /\ d.artist = <<"a">> /\ d.title = <<"t">> /\ d.program = "p"
              /\ (d.starttime = "ok" \/ d.duration = 180)}

NoData == [artist |-> None, title |-> None, program |-> "None",
           starttime |-> "None", duration |-> DurAbsent]

\* ------------------------------------------------------------------
\* Image names
\* ------------------------------------------------------------------
NoImage == <<"None", 0>>
DefaultArt == <<"default-art.jpg", 0>>
UuidName(n) == <<"uuid", n>>

\* ------------------------------------------------------------------
\* TrackInfo
\* ------------------------------------------------------------------
\* the validity check without the title
is_valid_song_artist(d) == strip(d.artist) # <<>>

is_valid_song(d) == strip(d.artist) # <<>> /\ strip(d.title) # <<>>

\* int(data.get('duration', 0)) raises on a non-numeric value
int_duration_raises(d) == d.duration = DurNonNumeric
int_duration(d) == IF d.duration = DurAbsent THEN 0 ELSE d.duration

NoTrack == [artist |-> None, title |-> None, album |-> "None",
            publisher |-> "None", ISRC |-> "None", publish_image |-> NoImage,
            start_time |-> "None", duration |-> 0, program_title |-> "None"]

\* TrackInfo.from_json raises for a missing file content (data is None) and,
\* on the song branch, for a duration int() rejects.
from_json_raises(d) ==
    \/ d = NoData
    \/ is_valid_song(d) /\ int_duration_raises(d)

\* The snapshots carry no album, publisher or ISRC key: a song gets the
\* fallbacks of lines 52-54.
from_json(d, uuid) ==
    IF ~is_valid_song(d)
    THEN [artist |-> <<>>, title |-> <<>>, album |-> "", publisher |-> "",
          ISRC |-> "", publish_image |-> DefaultArt,
          start_time |-> "ok", duration |-> 0, program_title |-> d.program]
    ELSE [artist |-> strip(d.artist), title |-> clean_title(d.title),
          album |-> "Unknown Album", publisher |-> "", ISRC |-> "",
          publish_image |-> UuidName(uuid),
          start_time |-> d.starttime, duration |-> int_duration(d),
          program_title |-> d.program]

\* ------------------------------------------------------------------
\* Services and ledger
\* ------------------------------------------------------------------
ServiceOrder == <<"Last.FM", "Listenbrainz", "Facebook", "Bluesky", "SoundExchange">>
Services == {ServiceOrder[i] : i \in 1..Len(ServiceOrder)}

\* a fingerprint without the separator
Fingerprint_nosep(t) == t.artist \o t.title

\* playout_handler.py line 270
Fingerprint(t) == t.artist \o Colon \o t.title

\* a lookup that fails closed: a database error reads as "published"
was_previously_published_closed(rows, artist, title, lookup_fails) ==
    \/ lookup_fails
    \/ \E i \in 1..Len(rows) : rows[i] = <<artist, title>>

\* a lookup that never finds a row
was_previously_published_never(rows, artist, title, lookup_fails) == FALSE

\* _was_previously_published: SELECT ... WHERE service, artist, title; a
\* database error makes execute_query return None, which reads as False.
was_previously_published(rows, artist, title, lookup_fails) ==
    /\ ~lookup_fails
    /\ \E i \in 1..Len(rows) : rows[i] = <<artist, title>>

\* an update that deletes and never inserts
record_published_lost(rows, artist, title, delete_fails, insert_fails) == <<>>

\* _record_published: DELETE FROM realtime WHERE service=?, then INSERT;
\* execute_non_query swallows a database error of either statement.
record_published(rows, artist, title, delete_fails, insert_fails) ==
    LET kept == IF delete_fails THEN rows ELSE <<>>
    IN  IF insert_fails THEN kept ELSE Append(kept, <<artist, title>>)

\* ------------------------------------------------------------------
\* Session state and observation of one cycle
\* ------------------------------------------------------------------
InitState(dur) ==
    [last_program_name |-> "None", program_start_time |-> "None",
     tracks_played |-> 0, current_track_duration |-> dur,
     last_published_image |-> NoImage, last_processed_checksum |-> None]

NoPlaylist == [shape |-> "absent", artist |-> None, title |-> None,
               image |-> NoImage, program_title |-> "None"]

ZeroCount == [s \in Services |-> 0]

\* A placeholder input: artist or title empty after trimming.
IsPlaceholderInput(d) ==
    d # NoData /\ (strip(d.artist) = <<>> \/ strip(d.title) = <<>>)

\* Observation of the latest reload of the playout file: kind names the path
\* the cycle took; fp is the fingerprint computed at line 270 (None when the
\* cycle never computed one); placeholder: the input was a placeholder;
\* genuine: the fingerprint differed from last_processed_checksum; skip:
\* artist or title is in a skip list; the counters count the calls made.
NewCycle(kind, d, fp, genuine, skip) ==
    [kind |-> kind, placeholder |-> IsPlaceholderInput(d),
     fp |-> fp, genuine |-> genuine, skip |-> skip, n_dispatch |-> ZeroCount,
     n_lookup |-> ZeroCount, n_pub |-> ZeroCount,
     n_remove |-> 0, n_copy |-> 0, n_playlist |-> 0]

\* ------------------------------------------------------------------
\* remove_old_artwork, copy_album_artwork, write_playlist_json
\* ------------------------------------------------------------------
\* a removal that deletes nothing
remove_old_artwork_kept(dir, st) == dir

remove_old_artwork(dir, st) ==
    IF st.last_published_image = NoImage THEN dir
    ELSE dir \ {st.last_published_image}

\* The destination file dest_dir / publish_image is written from the source
\* image when it exists and from the default image otherwise.
copy_album_artwork(dir, publish_image) == dir \cup {publish_image}

write_playlist_json(d, publish_image) ==
    IF publish_image = DefaultArt
    THEN [shape |-> "reduced", artist |-> None, title |-> None,
          image |-> publish_image, program_title |-> d.program]
    ELSE [shape |-> "song", artist |-> d.artist, title |-> d.title,
          image |-> publish_image, program_title |-> d.program]

\* ------------------------------------------------------------------
\* process_new_track_data, lines 249-326, for a song with a new fingerprint
\* ------------------------------------------------------------------
\* lines 300-309: the reset and the assignment of last_program_name are
\* nested under "last_program_name is not None"
program_transition(st, program) ==
    IF program # st.last_program_name /\ st.last_program_name # "None"
    THEN [st EXCEPT !.tracks_played = 0, !.program_start_time = "set",
                    !.last_program_name = program]
    ELSE st

\* the skip check looking at the artist alone
in_skip_lists_artist(t) == t.artist \in skip_artists

in_skip_lists(t) == t.artist \in skip_artists \/ t.title \in skip_titles

\* the duplicate check comparing the title alone
is_duplicate_track_title(st, t) == t.title = st.last_processed_checksum

is_duplicate_track(st, t) == Fingerprint(t) = st.last_processed_checksum

\* a state update that never stores anything
update_state_lost(st, t) == st

\* lines 277-280
update_state(st, t) ==
    [st EXCEPT !.last_processed_checksum = Fingerprint(t),
               !.current_track_duration = t.duration]

\* line 312
count_track(st) == [st EXCEPT !.tracks_played = st.tracks_played + 1]

\* strptime raises TypeError, which "except ValueError" does not catch
timestamp_raises(t) == t.start_time = "nonstring"

\* before the first reload of a process
NoCycle ==
    [kind |-> "none", placeholder |-> FALSE, fp |-> None, genuine |-> FALSE,
     skip |-> FALSE, n_dispatch |-> ZeroCount,
     n_lookup |-> ZeroCount, n_pub |-> ZeroCount,
     n_remove |-> 0, n_copy |-> 0, n_playlist |-> 0]

\* no SocialPublisher exists outside the publish loop
NoPublisher == [do_publish_socials |-> FALSE, made |-> FALSE]

\* SocialPublisher.__init__ copies do_publish_socials from the configuration
new_publisher(flag) == [do_publish_socials |-> flag, made |-> TRUE]

NoSent == [track |-> None, n |-> 0]

mark_sent(sent, artist, title) ==
    IF sent.track = <<artist, title>>
    THEN [sent EXCEPT !.n = @ + 1]
    ELSE [track |-> <<artist, title>>, n |-> 1]

NoHist(on) ==
    [on |-> on, sent |-> [s \in Services |-> NoSent],
     lookup_err |-> {}, pub_fail |-> {}, names |-> {}]

\* the image-publish-name an extraction gave to a track
hist_name(h, name) == IF h.on THEN [h EXCEPT !.names = @ \cup {name}] ELSE h

\* a reload starts the record of a new cycle
hist_reload(h) == IF h.on THEN [h EXCEPT !.lookup_err = {}, !.pub_fail = {}]
                  ELSE h

\* one call of publish_socials for service s
hist_call(h, s, artist, title, lookup_fails, invoked, publish_ok) ==
    IF ~h.on THEN h
    ELSE [h EXCEPT
            !.sent[s] = IF invoked /\ publish_ok
                        THEN mark_sent(@, artist, title) ELSE @,
            !.lookup_err = IF lookup_fails THEN @ \cup {s} ELSE @,
            !.pub_fail = IF invoked /\ ~publish_ok THEN @ \cup {s} ELSE @]

NoRestarts == [clean |-> 0, torn |-> 0]

PInit ==
    /\ pc = "idle"
    /\ svc_idx = 0
    /\ data = NoData
    /\ now_playing = NoTrack
    /\ state \in {InitState(dur) : dur \in {0, 180}}
    /\ ledger = [s \in Services |-> <<>>]
    /\ publish_dir = {}
    /\ playlist = NoPlaylist
    /\ uuid_next = 0
    /\ do_publish_socials \in BOOLEAN
    /\ disabled_services \in {{}, {"Facebook"}}
    /\ faults_left = MaxFaults
    /\ cyc = NoCycle
    /\ publisher = NoPublisher
    /\ restarts = NoRestarts

config_unchanged == UNCHANGED <<do_publish_socials, disabled_services>>

history_unchanged == UNCHANGED <<hist, restarts>>

\* reload_playout_file on a file that cannot be loaded or extracted: the
\* exception is caught at line 352 and nothing else happens.
ReloadError(d) ==
    /\ pc = "idle"
    /\ from_json_raises(d)
    /\ cyc' = NewCycle("error", d, None, FALSE, FALSE)
    /\ UNCHANGED <<pc, svc_idx, data, now_playing, state, ledger, publish_dir,
                   playlist, uuid_next, faults_left>>
    /\ config_unchanged
    /\ hist' = hist_reload(hist)
    /\ UNCHANGED <<publisher, restarts>>
    /\ UNCHANGED wvars

\* lines 256-264: non-song content
ReloadPlaceholder(d) ==
    /\ pc = "idle"
    /\ ~from_json_raises(d)
    /\ ~is_valid_song(d)
    /\ LET t == from_json(d, uuid_next)
       IN  /\ publish_dir' = copy_album_artwork(publish_dir, t.publish_image)
           /\ playlist' = write_playlist_json(d, t.publish_image)
           /\ cyc' = [NewCycle("placeholder", d, None, FALSE, FALSE)
                        EXCEPT !.n_copy = 1, !.n_playlist = 1]
    /\ UNCHANGED <<pc, svc_idx, data, now_playing, state, ledger, uuid_next,
                   faults_left>>
    /\ config_unchanged
    /\ hist' = hist_reload(hist)
    /\ UNCHANGED <<publisher, restarts>>
    /\ UNCHANGED wvars

\* lines 266-326: a song
ReloadSong(d) ==
    /\ pc = "idle"
    /\ ~from_json_raises(d)
    /\ is_valid_song(d)
    /\ uuid_next < MaxUuid
    /\ uuid_next' = uuid_next + 1
    /\ LET t == from_json(d, uuid_next + 1)
           fp == Fingerprint(t)
           st1 == update_state(state, t)
           dir1 == remove_old_artwork(publish_dir, state)
           st2 == count_track(program_transition(st1, t.program_title))
       IN  IF is_duplicate_track(state, t)
           THEN /\ cyc' = NewCycle("duplicate", d, fp, FALSE, in_skip_lists(t))
                /\ UNCHANGED <<pc, svc_idx, data, now_playing, state,
                               publish_dir, publisher>>
           ELSE IF timestamp_raises(t)
           THEN /\ cyc' = [NewCycle("aborted", d, fp, TRUE, in_skip_lists(t))
                             EXCEPT !.n_remove = 1]
                /\ state' = st1
                /\ publish_dir' = dir1
                /\ UNCHANGED <<pc, svc_idx, data, now_playing, publisher>>
           ELSE IF in_skip_lists(t)
           THEN /\ cyc' = [NewCycle("skipped", d, fp, TRUE, TRUE)
                             EXCEPT !.n_remove = 1]
                /\ state' = st2
                /\ publish_dir' = dir1
                /\ UNCHANGED <<pc, svc_idx, data, now_playing, publisher>>
           ELSE /\ cyc' = [NewCycle("new", d, fp, TRUE, FALSE)
                             EXCEPT !.n_remove = 1]
                /\ state' = st2
                /\ publish_dir' = dir1
                /\ pc' = "publish"
                /\ svc_idx' = 1
                /\ data' = d
                /\ now_playing' = t
                \* line 329
                /\ publisher' = new_publisher(do_publish_socials)
    /\ UNCHANGED <<ledger, playlist, faults_left>>
    /\ config_unchanged
    /\ hist' = hist_reload(hist)
    /\ UNCHANGED restarts
    /\ UNCHANGED wvars

\* social_publisher.py lines 77-80
\* no service counts as disabled
service_disabled_never(s) == FALSE

service_disabled(s) == s \in disabled_services

\* the loop at lines 330-344 left after its first service
loop_done_early(idx) == idx >= 1

loop_done(idx) == idx = Len(ServiceOrder)

\* lines 72-94 of social_publisher.py: the call returns before the Publisher
short_circuit(s, lookup_fails) ==
    \/ ~publisher.do_publish_socials
    \/ service_disabled(s)
    \/ was_previously_published(ledger[s], now_playing.artist,
                                now_playing.title, lookup_fails)
    \/ in_skip_lists(now_playing)

\* the ledger lookup of line 83 is reached
lookup_reached(s) == publisher.do_publish_socials /\ ~service_disabled(s)

\* a Publisher failure leaving publish_socials as an exception
publish_raises_uncaught(publish_ok) == ~publish_ok

\* lines 96-127: a failure report is ignored and an exception of the
\* Publisher is caught at line 126; nothing leaves publish_socials
publish_raises(publish_ok) == FALSE

\* lines 119-122: _record_published runs when publish() returned a true value
is_recorded(invoked, publish_ok) == invoked /\ publish_ok

\* publish_socials for the next service of the loop at lines 330-343
PublishSocials ==
    /\ pc = "publish"
    /\ LET s == ServiceOrder[svc_idx]
           a == now_playing.artist
           ti == now_playing.title
       IN  \E lookup_fails, publish_ok, delete_fails, insert_fails \in BOOLEAN :
             LET short == short_circuit(s, lookup_fails)
                 cost == (IF lookup_fails THEN 1 ELSE 0)
                         + (IF publish_ok THEN 0 ELSE 1)
                         + (IF delete_fails THEN 1 ELSE 0)
                         + (IF insert_fails THEN 1 ELSE 0)
             IN  /\ cost <= faults_left
                 \* a fault is drawn only where the code reaches the call
                 /\ lookup_fails => lookup_reached(s)
                 /\ ~publish_ok => ~short
                 /\ (delete_fails \/ insert_fails) => (~short /\ publish_ok)
                 /\ faults_left' = faults_left - cost
                 /\ cyc' = [cyc EXCEPT
                              !.n_dispatch[s] = @ + 1,
                              !.n_lookup[s] = IF lookup_reached(s) THEN @ + 1 ELSE @,
                              !.n_pub[s] = IF short THEN @ ELSE @ + 1]
                 /\ ledger' = IF is_recorded(~short, publish_ok)
                              THEN [ledger EXCEPT ![s] =
                                      record_published(@, a, ti, delete_fails,
                                                       insert_fails)]
                              ELSE ledger
                 /\ hist' = hist_call(hist, s, a, ti, lookup_fails, ~short,
                                      publish_ok)
                 /\ IF publish_raises(publish_ok)
                    \* the exception ends the cycle at line 352
                    THEN pc' = "idle" /\ svc_idx' = 0
                    ELSE IF loop_done(svc_idx)
                    THEN pc' = "artwork" /\ svc_idx' = 0
                    ELSE pc' = "publish" /\ svc_idx' = svc_idx + 1
    /\ UNCHANGED <<data, now_playing, state, publish_dir, playlist, uuid_next,
                   publisher, restarts>>
    /\ config_unchanged
    /\ UNCHANGED wvars

\* line 348
CopyAlbumArtwork ==
    /\ pc = "artwork"
    /\ publish_dir' = copy_album_artwork(publish_dir, now_playing.publish_image)
    /\ cyc' = [cyc EXCEPT !.n_copy = @ + 1]
    /\ pc' = "playlist"
    /\ UNCHANGED <<svc_idx, data, now_playing, state, ledger, playlist,
                   uuid_next, faults_left>>
    /\ config_unchanged
    /\ history_unchanged
    /\ UNCHANGED publisher
    /\ UNCHANGED wvars

\* line 349
WritePlaylistJson ==
    /\ pc = "playlist"
    /\ playlist' = write_playlist_json(data, now_playing.publish_image)
    /\ cyc' = [cyc EXCEPT !.n_playlist = @ + 1]
    /\ pc' = "image"
    /\ UNCHANGED <<svc_idx, data, now_playing, state, ledger, publish_dir,
                   uuid_next, faults_left>>
    /\ config_unchanged
    /\ history_unchanged
    /\ UNCHANGED publisher
    /\ UNCHANGED wvars

\* line 350, the end of the cycle
SetPublishedImage ==
    /\ pc = "image"
    /\ state' = [state EXCEPT !.last_published_image = now_playing.publish_image]
    /\ pc' = "idle"
    /\ data' = NoData
    /\ now_playing' = NoTrack
    /\ UNCHANGED <<svc_idx, ledger, publish_dir, playlist, uuid_next,
                   faults_left, cyc>>
    /\ publisher' = NoPublisher
    /\ config_unchanged
    /\ history_unchanged
    /\ UNCHANGED wvars

PNext ==
    \/ \E d \in Snapshots \cup {NoData} : ReloadError(d)
    \/ \E d \in Snapshots : ReloadPlaceholder(d)
    \/ \E d \in Snapshots : ReloadSong(d)
    \/ PublishSocials
    \/ CopyAlbumArtwork
    \/ WritePlaylistJson
    \/ SetPublishedImage

\* ------------------------------------------------------------------
\* SIGHUP: the configuration is read again (main.py reload_config)
\* ------------------------------------------------------------------
\* reload_config resets the session, as a restart would
reload_session_reset(st) == InitState(st.current_track_duration)

\* reload_config calls config_handler.reload() and nothing else: the state
\* dict main() made at line 59 is not in its reach.
reload_session(st) == st

\* The handler runs on the main thread between two of its bytecodes, at any
\* point of a cycle the dispatch thread is in. _load_exceptions assigns
\* do_publish_socials; the ConfigParser, which publish_socials asks for
\* disable_services on every call, is read anew. A SocialMediaPublisher
\* in use keeps the do_publish_socials it copied when it was made.
ReloadConfig ==
    /\ \E flag \in BOOLEAN, disabled \in {{}, {"Facebook"}} :
          /\ <<flag, disabled>> # <<do_publish_socials, disabled_services>>
          /\ do_publish_socials' = flag
          /\ disabled_services' = disabled
    /\ state' = reload_session(state)
    /\ UNCHANGED <<pc, svc_idx, data, now_playing, ledger, publish_dir,
                   playlist, uuid_next, faults_left, cyc, publisher>>
    /\ history_unchanged
    /\ UNCHANGED wvars

\* the tracks played while the configuration is reloaded
ConfigSnapshots ==
    {d \in Snapshots : /\ d.artist \in {<<" ">>, <<"a">>, <<"b">>}
                       /\ d.title = <<"t">> /\ d.program = "p"
                       /\ d.starttime = "ok" /\ d.duration = 180}

ConfigNext ==
    \/ \E d \in ConfigSnapshots : ReloadPlaceholder(d)
    \/ \E d \in ConfigSnapshots : ReloadSong(d)
    \/ PublishSocials
    \/ CopyAlbumArtwork
    \/ WritePlaylistJson
    \/ SetPublishedImage
    \/ ReloadConfig

\* ------------------------------------------------------------------
\* TrackInfo.from_json and TrackInfo._clean_title, called on their own
\* ------------------------------------------------------------------
MaxLen == 3

TitleChars == {" ", "t", "(", "[", "<"}

RECURSIVE Strings(_, _)
Strings(chars, n) ==
    IF n = 0 THEN {<<>>}
    ELSE LET shorter == Strings(chars, n - 1)
         IN shorter \cup {<<c>> \o w : c \in chars,
                                       w \in {x \in shorter : Len(x) = n - 1}}

RawTitles == Strings(TitleChars, MaxLen)
RawArtists == {<<>>, <<" ">>, <<"a">>, <<" ", "a", " ">>}

\* the decoded contents from_json is first called on
ExtractInputs ==
    [artist : RawArtists, title : RawTitles, program : {"p"},
     starttime : {"ok"}, duration : {180, DurAbsent}]

\* TrackInfo.from_json(data): the song branch draws a new uuid4 name
Extract ==
    /\ pc = "idle"
    /\ data # NoData
    /\ ~from_json_raises(data)
    /\ is_valid_song(data) => uuid_next < MaxUuid
    /\ LET uuid == IF is_valid_song(data) THEN uuid_next + 1 ELSE uuid_next
           t == from_json(data, uuid)
       IN /\ now_playing' = t
          /\ uuid_next' = uuid
          /\ hist' = IF is_valid_song(data)
                     THEN hist_name(hist, t.publish_image) ELSE hist
    /\ pc' = "extracted"
    /\ UNCHANGED <<svc_idx, data, state, ledger, publish_dir, playlist,
                   faults_left, cyc, publisher, restarts>>
    /\ config_unchanged
    /\ UNCHANGED wvars

\* TrackInfo._clean_title(title) on the title of the decoded content
CleanTitle ==
    /\ pc = "idle"
    /\ data # NoData
    /\ now_playing' = [NoTrack EXCEPT !.title = clean_title(data.title)]
    /\ pc' = "cleaned"
    /\ UNCHANGED <<svc_idx, data, state, ledger, publish_dir, playlist,
                   uuid_next, faults_left, cyc, publisher>>
    /\ config_unchanged
    /\ history_unchanged
    /\ UNCHANGED wvars

\* the next content of the playout file is decoded
NextSnapshot(d) ==
    /\ pc \in {"extracted", "cleaned"}
    /\ data' = d
    /\ now_playing' = NoTrack
    /\ pc' = "idle"
    /\ UNCHANGED <<svc_idx, state, ledger, publish_dir, playlist, uuid_next,
                   faults_left, cyc, publisher>>
    /\ config_unchanged
    /\ history_unchanged
    /\ UNCHANGED wvars

ExtractNext ==
    \/ Extract
    \/ CleanTitle
    \/ \E d \in ConfigSnapshots : NextSnapshot(d)

\* ------------------------------------------------------------------
\* Decoding the playout file: json.loads, _sanitize_json, safe_json_loads
\* ------------------------------------------------------------------
\* The file holds one pair "title": "BODY"; BODY is made of an ordinary
\* character, the backslash and the double quote.
Backslash == "\\"
Quote == "\""
BodyChars == {"x", Backslash, Quote}
Bodies == Strings(BodyChars, MaxLen)

JSONDecodeError == <<"JSONDecodeError">>

\* the characters decoded so far, followed by what the rest decodes to
decoded(c, rest) == IF rest = JSONDecodeError THEN JSONDecodeError
                    ELSE <<c>> \o rest

\* json.loads on the pair: BODY is a string body when every backslash
\* escapes a quote or a backslash and no quote stands unescaped, which
\* would end the string before the text ends.
RECURSIVE json_loads(_)
json_loads(body) ==
    IF body = <<>> THEN <<>>
    ELSE IF Head(body) = Quote THEN JSONDecodeError
    ELSE IF Head(body) = Backslash
    THEN IF Len(body) >= 2 /\ body[2] \in {Quote, Backslash}
         THEN decoded(body[2], json_loads(SubSeq(body, 3, Len(body))))
         ELSE JSONDecodeError
    ELSE decoded(Head(body), json_loads(Tail(body)))

\* _fix_values on a matched value, which holds no quote: every backslash
\* is doubled
RECURSIVE fix_values(_)
fix_values(value) ==
    IF value = <<>> THEN <<>>
    ELSE IF Head(value) = Backslash
    THEN <<Backslash, Backslash>> \o fix_values(Tail(value))
    ELSE <<Head(value)>> \o fix_values(Tail(value))

\* the characters of body before its first quote
RECURSIVE up_to_quote(_)
up_to_quote(body) ==
    IF body = <<>> \/ Head(body) = Quote THEN <<>>
    ELSE <<Head(body)>> \o up_to_quote(Tail(body))

\* re.sub(r'"([^"]+)": "([^"]+)"', _fix_values, content): the value matched
\* is the non-empty run of characters up to the first quote, escaped or not;
\* what follows that quote is left as it is.
sanitize_json(body) ==
    LET value == up_to_quote(body)
    IN  IF value = <<>> THEN body
        ELSE fix_values(value) \o SubSeq(body, Len(value) + 1, Len(body))

\* _load_playout_json, lines 64-68: sanitize, then decode
load_playout_json(body) == json_loads(sanitize_json(body))

\* safe_json_loads: decode, and only if that fails sanitize and decode
safe_json_loads(body) ==
    IF json_loads(body) # JSONDecodeError THEN json_loads(body)
    ELSE json_loads(sanitize_json(body))

playout_file(body) ==
    [exists |-> TRUE, size |-> 60, readable |-> TRUE, text |-> body]

\* what playout_data.data becomes: None when the decoding failed
loaded_data(result) ==
    IF result = JSONDecodeError THEN NoData
    ELSE [artist |-> <<"a">>, title |-> result, program |-> "p",
          starttime |-> "ok", duration |-> 180]

\* PlayoutData._load_playout_json() on the file
LoadPlayoutJson ==
    /\ pc = "idle"
    /\ data' = loaded_data(load_playout_json(file.text))
    /\ pc' = "loaded"
    /\ UNCHANGED <<svc_idx, now_playing, state, ledger, publish_dir, playlist,
                   uuid_next, faults_left, cyc, publisher>>
    /\ config_unchanged
    /\ history_unchanged
    /\ UNCHANGED wvars

\* utils.json_utils.safe_json_loads on the content of the file
SafeJsonLoads ==
    /\ pc = "idle"
    /\ data' = loaded_data(safe_json_loads(file.text))
    /\ pc' = "parsed"
    /\ UNCHANGED <<svc_idx, now_playing, state, ledger, publish_dir, playlist,
                   uuid_next, faults_left, cyc, publisher>>
    /\ config_unchanged
    /\ history_unchanged
    /\ UNCHANGED wvars

\* the playout tool writes the file anew
RewriteBody(body) ==
    /\ pc \in {"loaded", "parsed"}
    /\ file' = playout_file(body)
    /\ data' = NoData
    /\ pc' = "idle"
    /\ UNCHANGED <<event_queue, processing_lock, current_state, current_age,
                   last_event_age, wpc, elapsed, previous_state, stable_count,
                   stable_state, stable_age, accepted_age, obs, cb,
                   loop_state>>
    /\ UNCHANGED <<svc_idx, now_playing, state, ledger, publish_dir, playlist,
                   uuid_next, faults_left, cyc, publisher>>
    /\ config_unchanged
    /\ history_unchanged

ParseNext ==
    \/ LoadPlayoutJson
    \/ SafeJsonLoads
    \/ \E body \in Bodies : RewriteBody(body)

\* ------------------------------------------------------------------
\* process_new_track_data, lines 249-280: is the track a new one?
\* ------------------------------------------------------------------
MaxFpLen == 2

\* artists and titles with colons in them
FpChars == {"a", ":"}
FpStrings == Strings(FpChars, MaxFpLen) \ {<<>>}

FpInputs ==
    [artist : FpStrings, title : FpStrings, program : {"p"},
     starttime : {"ok"}, duration : {180}]

\* main.py lines 41-47: the content of the file is decoded
LoadSnapshot(d) ==
    /\ pc = "idle"
    /\ data' = d
    /\ pc' = "loaded"
    /\ UNCHANGED <<svc_idx, now_playing, state, ledger, publish_dir, playlist,
                   uuid_next, faults_left, cyc, publisher>>
    /\ config_unchanged
    /\ history_unchanged
    /\ UNCHANGED wvars

\* lines 249-280 for a song: the track is extracted, its fingerprint is
\* compared with the recorded one and, if it differs, recorded. now_playing
\* keeps the track until the next one is extracted.
CompareFingerprint ==
    /\ pc = "loaded"
    /\ ~from_json_raises(data)
    /\ is_valid_song(data)
    /\ uuid_next < MaxUuid
    /\ uuid_next' = uuid_next + 1
    /\ LET t == from_json(data, uuid_next + 1)
       IN  /\ now_playing' = t
           /\ IF is_duplicate_track(state, t)
              THEN /\ cyc' = NewCycle("duplicate", data, Fingerprint(t),
                                      FALSE, in_skip_lists(t))
                   /\ state' = state
              ELSE /\ cyc' = NewCycle("new", data, Fingerprint(t), TRUE,
                                      in_skip_lists(t))
                   /\ state' = update_state(state, t)
    /\ pc' = "idle"
    /\ UNCHANGED <<svc_idx, data, ledger, publish_dir, playlist, faults_left,
                   publisher>>
    /\ config_unchanged
    /\ history_unchanged
    /\ UNCHANGED wvars

FingerprintNext ==
    \/ \E d \in FpInputs : LoadSnapshot(d)
    \/ CompareFingerprint

\* ------------------------------------------------------------------
\* The process stops and is started again
\* ------------------------------------------------------------------
MaxRestarts == 1

restarts_left == restarts.clean + restarts.torn < MaxRestarts

\* what a new process starts from: PlayoutData.__init__ builds a new session
\* state; the ledger, the publish directory and playlist.json are on disk
process_start(dur) ==
    /\ pc' = "idle"
    /\ svc_idx' = 0
    /\ data' = NoData
    /\ now_playing' = NoTrack
    /\ state' = InitState(dur)
    /\ cyc' = NoCycle
    /\ publisher' = NoPublisher
    /\ UNCHANGED <<publish_dir, playlist, uuid_next, faults_left>>
    /\ config_unchanged
    /\ UNCHANGED wvars

\* the process stops between two statements of the pipeline
Restart ==
    /\ restarts_left
    /\ restarts' = [restarts EXCEPT !.clean = @ + 1]
    /\ hist' = hist_reload(hist)
    /\ UNCHANGED ledger
    /\ \E dur \in {0, 180} : process_start(dur)

\* the process stops in _record_published between the DELETE of line 194 and
\* the INSERT of line 195: the Publisher has reported success and the
\* service's rows are gone
CrashInUpdate ==
    /\ restarts_left
    /\ pc = "publish"
    /\ LET s == ServiceOrder[svc_idx]
       IN  /\ ~short_circuit(s, FALSE)
           /\ ledger' = [ledger EXCEPT ![s] = <<>>]
           /\ hist' = hist_reload(hist_call(hist, s, now_playing.artist,
                                            now_playing.title, FALSE, TRUE,
                                            TRUE))
    /\ restarts' = [restarts EXCEPT !.torn = @ + 1]
    /\ \E dur \in {0, 180} : process_start(dur)

\* the songs played while the ledger is watched
LedgerSnapshots ==
    {d \in Snapshots : /\ d.artist \in {<<"a">>, <<"b">>} /\ d.title = <<"t">>
                       /\ d.program = "p"
                       /\ d.starttime = "ok" /\ d.duration = 180}

LedgerNext ==
    \/ \E d \in LedgerSnapshots : ReloadSong(d)
    \/ PublishSocials
    \/ CopyAlbumArtwork
    \/ WritePlaylistJson
    \/ SetPublishedImage
    \/ Restart
    \/ CrashInUpdate

\* ------------------------------------------------------------------
\* File watcher: configuration, in ticks of 0.5 s
\* ------------------------------------------------------------------
min_file_size == 50
event_timeout == 1
stability_checks == 2
debounce_time == 3
max_wait_time == 4

\* ------------------------------------------------------------------
\* The playout file on disk
\* ------------------------------------------------------------------
\* text: "X" is a complete JSON object; "cut" is an object cut off in the
\* middle of a write, which no repair makes parseable; "plain" is text that
\* is no JSON object.
Texts == {"X", "cut", "plain"}

starts_with_brace(text) == text \in {"X", "cut"}
Parses(text) == text = "X"

Missing == [exists |-> FALSE, size |-> 0, readable |-> FALSE, text |-> "none"]

FileContents ==
    {Missing,
     [exists |-> TRUE, size |-> 60, readable |-> TRUE, text |-> "X"],
     \* the same text behind a byte-order mark: 3 bytes more on disk
     [exists |-> TRUE, size |-> 63, readable |-> TRUE, text |-> "X"],
     [exists |-> TRUE, size |-> 60, readable |-> TRUE, text |-> "cut"],
     [exists |-> TRUE, size |-> 60, readable |-> TRUE, text |-> "plain"],
     \* a transfer that has only begun
     [exists |-> TRUE, size |-> 40, readable |-> TRUE, text |-> "cut"],
     \* bytes that do not decode as UTF-8
     [exists |-> TRUE, size |-> 60, readable |-> FALSE, text |-> "none"]}

md5(text) == <<"md5", text>>

NoFileState == [size |-> -1, checksum |-> md5("none"), content |-> "none"]

\* the read without the size check
get_file_state_any_size(f) ==
    IF ~f.exists THEN NoFileState
    ELSE IF ~f.readable THEN NoFileState
    ELSE [size |-> f.size, checksum |-> md5(f.text), content |-> f.text]

get_file_state(f) ==
    IF ~f.exists THEN NoFileState
    ELSE IF f.size < min_file_size THEN NoFileState
    ELSE IF ~f.readable THEN NoFileState
    ELSE [size |-> f.size, checksum |-> md5(f.text), content |-> f.text]

\* the comparison without the size
states_match_checksum(state1, state2) == state1.checksum = state2.checksum

states_match(state1, state2) ==
    state1.size = state2.size /\ state1.checksum = state2.checksum

validate_file_state(st) ==
    st.size >= min_file_size /\ starts_with_brace(st.content)

is_duplicate_state(new_state, cur, time_diff) ==
    /\ cur # NoFileState
    /\ states_match(new_state, cur)
    /\ time_diff < debounce_time

\* ------------------------------------------------------------------
\* Events
\* ------------------------------------------------------------------
\* src: the playout file or another file of the watched directory; during:
\* the observer raised this created/modified event of the playout file while
\* a stabilization attempt was running.
EventKinds ==
    {[src |-> "playout", type |-> "modified"],
     [src |-> "playout", type |-> "deleted"],
     [src |-> "other", type |-> "modified"]}

Accepted(e) == e.src = "playout" /\ e.type \in {"created", "modified"}

\* ------------------------------------------------------------------
\* Clocks
\* ------------------------------------------------------------------
AgeUp(a) == IF a < debounce_time THEN a + 1 ELSE a
ElapsedUp(e) == IF e < max_wait_time THEN e + 1 ELSE e

InAttempt == wpc # "idle"

\* main.py lines 62-65 and file_handler.py lines 228-230: the watch loop
\* forces a check once last_processed_time + current_track_duration +
\* event_timeout lies in the past. NotWatching: the loop is left out.
NotWatching == [age |-> -1, duration |-> -1]
next_check_time(ls) == ls.duration + event_timeout
LoopAgeUp(ls) ==
    IF ls = NotWatching \/ ls.age > next_check_time(ls) THEN ls
    ELSE [ls EXCEPT !.age = @ + 1]

\* one tick of 0.5 s passes
Pass ==
    /\ current_age' = AgeUp(current_age)
    /\ last_event_age' = AgeUp(last_event_age)
    /\ accepted_age' = AgeUp(accepted_age)
    /\ stable_age' = IF wpc = "process" THEN AgeUp(stable_age) ELSE stable_age
    /\ elapsed' = IF InAttempt THEN ElapsedUp(elapsed) ELSE elapsed
    /\ loop_state' = LoopAgeUp(loop_state)

NoPass == UNCHANGED <<current_age, last_event_age, accepted_age, stable_age,
                      elapsed, loop_state>>

\* ------------------------------------------------------------------
\* Observation of one stabilization attempt
\* ------------------------------------------------------------------
\* A poll reads a snapshot when the file exists, has min_file_size bytes and
\* decodes; two snapshots are equal iff size and checksum match.
ReadableFile(f) == f.exists /\ f.size >= min_file_size /\ f.readable
SnapshotOf(f) == [size |-> f.size, text |-> f.text]
NoSnapshot == [size |-> -1, text |-> "none"]
SnapshotsEqual(a, b) == a.size = b.size /\ a.text = b.text

RunCap == stability_checks + 1
RunUp(n) == IF n < RunCap THEN n + 1 ELSE n

\* polled: toggles at every poll; last_poll: the snapshot of the latest poll,
\* NoSnapshot when it failed; last_read: the latest snapshot read; run_polls:
\* the number of latest polls in a row that read equal snapshots; run_reads:
\* the number of latest snapshots read that are equal, failed polls between
\* them not counted; result: how the attempt ended.
NewAttempt ==
    [polled |-> 0, failed |-> FALSE, last_poll |-> NoSnapshot,
     last_read |-> NoSnapshot, run_polls |-> 0, run_reads |-> 0,
     result |-> "running"]

Observe(f, result) ==
    LET ok == ReadableFile(f)
        snap == SnapshotOf(f)
    IN  [polled |-> 1 - obs.polled,
         failed |-> ~ok,
         last_poll |-> IF ok THEN snap ELSE NoSnapshot,
         last_read |-> IF ok THEN snap ELSE obs.last_read,
         run_polls |-> IF ~ok THEN 0
                       ELSE IF SnapshotsEqual(obs.last_poll, snap)
                            THEN RunUp(obs.run_polls) ELSE 1,
         run_reads |-> IF ~ok THEN obs.run_reads
                       ELSE IF SnapshotsEqual(obs.last_read, snap)
                            THEN RunUp(obs.run_reads) ELSE 1,
         result |-> result]

\* ------------------------------------------------------------------
\* Actions of the environment
\* ------------------------------------------------------------------
\* the playout tool rewrites, truncates or removes the file
WriteFile(c) ==
    /\ c # file
    /\ file' = c
    /\ UNCHANGED <<event_queue, processing_lock, current_state, wpc,
                   previous_state, stable_count, stable_state, obs, cb>>
    /\ NoPass
    /\ UNCHANGED pvars

\* the observer's emitter thread queues an event
EmitEvent(k) ==
    /\ Len(event_queue) < MaxQueue
    /\ event_queue' = Append(event_queue,
                             [src |-> k.src, type |-> k.type,
                              during |-> InAttempt /\ Accepted(k)])
    /\ UNCHANGED <<file, processing_lock, current_state, wpc, previous_state,
                   stable_count, stable_state, obs, cb>>
    /\ NoPass
    /\ UNCHANGED pvars

\* time passes outside the sleeps of the stability loop
Tick ==
    /\ \/ current_age < debounce_time
       \/ accepted_age < debounce_time
       \/ InAttempt /\ elapsed < max_wait_time
       \/ wpc = "process" /\ stable_age < debounce_time
       \/ LoopAgeUp(loop_state) # loop_state
    /\ UNCHANGED <<file, event_queue, processing_lock, current_state, wpc,
                   previous_state, stable_count, stable_state, obs, cb>>
    /\ Pass
    /\ UNCHANGED pvars

\* ------------------------------------------------------------------
\* on_any_event, called by the observer's dispatch thread for the next
\* queued event; the thread is inside the call until the cycle has ended.
\* ------------------------------------------------------------------
NotCalled == [called |-> FALSE, same |-> TRUE, by |-> "none"]

event_outcome(e) ==
    IF e.src # "playout" THEN "other_path"
    ELSE IF e.type \notin {"created", "modified"} THEN "ignored_type"
    ELSE IF last_event_age < debounce_time THEN "debounced"
    ELSE IF processing_lock THEN "locked"
    ELSE "accepted"

OnAnyEvent ==
    /\ wpc = "idle"
    /\ event_queue # <<>>
    /\ event_queue' = Tail(event_queue)
    /\ LET e == Head(event_queue)
           outcome == event_outcome(e)
       IN  IF outcome = "accepted"
           THEN /\ processing_lock' = TRUE
                /\ wpc' = "wait"
                /\ elapsed' = 0
                /\ previous_state' = NoFileState
                /\ stable_count' = 0
                /\ obs' = NewAttempt
                /\ accepted_age' = 0
                /\ cb' = NotCalled
                /\ UNCHANGED <<current_age, last_event_age, stable_age,
                               loop_state>>
           ELSE /\ UNCHANGED <<processing_lock, wpc, previous_state,
                               stable_count, obs, cb>>
                /\ NoPass
    /\ UNCHANGED <<file, current_state, stable_state>>
    /\ UNCHANGED pvars

\* the exits of _handle_file_event without the finally of on_any_event
EndEvent_nofinally(result) ==
    /\ obs' = [NewAttempt EXCEPT !.result = result]
    /\ UNCHANGED processing_lock
    /\ wpc' = "idle"
    /\ previous_state' = NoFileState
    /\ stable_count' = 0
    /\ stable_state' = NoFileState
    /\ elapsed' = 0
    /\ stable_age' = 0

\* the exits of _handle_file_event and the finally of on_any_event
EndEvent(result) ==
    /\ obs' = [NewAttempt EXCEPT !.result = result]
    /\ processing_lock' = FALSE
    /\ wpc' = "idle"
    /\ previous_state' = NoFileState
    /\ stable_count' = 0
    /\ stable_state' = NoFileState
    /\ elapsed' = 0
    /\ stable_age' = 0

\* ------------------------------------------------------------------
\* _wait_for_file_stability: one iteration of the loop per action
\* ------------------------------------------------------------------
\* while (time.time() - start_time) < self.config.max_wait_time
\* the loop without its time limit
within_wait_forever(e) == e >= 0

within_wait(e) == e < max_wait_time

\* the loop condition fails: return None, "File did not stabilize"
PollTimeout ==
    /\ wpc = "wait"
    /\ ~within_wait(elapsed)
    /\ EndEvent("timeout")
    /\ UNCHANGED <<file, event_queue, current_state, cb, current_age,
                   last_event_age, accepted_age, loop_state>>
    /\ UNCHANGED pvars

\* lines 108-111: no FileState
PollFailed ==
    /\ wpc = "wait"
    /\ within_wait(elapsed)
    /\ get_file_state(file) = NoFileState
    /\ stable_count' = 0
    /\ obs' = Observe(file, "running")
    /\ Pass
    /\ UNCHANGED <<file, event_queue, processing_lock, current_state, wpc,
                   previous_state, stable_state, cb>>
    /\ UNCHANGED pvars

\* lines 117-121: the first FileState, or one that differs from previous_state
PollDiffer ==
    /\ wpc = "wait"
    /\ within_wait(elapsed)
    /\ LET cs == get_file_state(file)
       IN  /\ cs # NoFileState
           /\ ~(previous_state # NoFileState /\ states_match(previous_state, cs))
           /\ previous_state' = cs
    /\ stable_count' = 0
    /\ obs' = Observe(file, "running")
    /\ Pass
    /\ UNCHANGED <<file, event_queue, processing_lock, current_state, wpc,
                   stable_state, cb>>
    /\ UNCHANGED pvars

\* the threshold test off by one
reached_stability_late(count) == count > stability_checks

reached_stability(count) == count >= stability_checks

\* lines 113-115, 120-121: a match below the threshold
PollMatch ==
    /\ wpc = "wait"
    /\ within_wait(elapsed)
    /\ LET cs == get_file_state(file)
       IN  /\ cs # NoFileState
           /\ previous_state # NoFileState /\ states_match(previous_state, cs)
           /\ ~reached_stability(stable_count + 1)
           /\ previous_state' = cs
    /\ stable_count' = stable_count + 1
    /\ obs' = Observe(file, "running")
    /\ Pass
    /\ UNCHANGED <<file, event_queue, processing_lock, current_state, wpc,
                   stable_state, cb>>
    /\ UNCHANGED pvars

\* lines 113-116: the match that reaches the threshold returns current_state;
\* _handle_file_event then validates it and drops a duplicate state.
PollStable ==
    /\ wpc = "wait"
    /\ within_wait(elapsed)
    /\ LET cs == get_file_state(file)
       IN  /\ cs # NoFileState
           /\ previous_state # NoFileState /\ states_match(previous_state, cs)
           /\ reached_stability(stable_count + 1)
           /\ IF ~validate_file_state(cs)
              THEN EndEvent("invalid")
              ELSE IF is_duplicate_state(cs, current_state, current_age)
              THEN EndEvent("duplicate")
              ELSE /\ obs' = Observe(file, "stable")
                   /\ wpc' = "process"
                   /\ stable_state' = cs
                   /\ stable_age' = 0
                   /\ stable_count' = stable_count + 1
                   /\ UNCHANGED <<processing_lock, previous_state, elapsed>>
    /\ UNCHANGED <<file, event_queue, current_state, cb, current_age,
                   last_event_age, accepted_age, loop_state>>
    /\ UNCHANGED pvars

\* main.py lines 53-54, at the end of reload_playout_file: the time is taken
\* whatever happened; the duration only when the file was loaded.
after_reload(ls, f) ==
    IF ls = NotWatching THEN ls
    ELSE [age |-> 0,
          duration |-> IF f.exists /\ f.readable /\ Parses(f.text)
                       THEN TrackTicks ELSE ls.duration]

\* _process_file: the callback of main.py ignores the content it is handed
\* and reads the file again; reload_playout_file catches every exception.
ProcessFile ==
    /\ wpc = "process"
    /\ cb' = [called |-> TRUE,
              same |-> file.exists /\ file.readable
                         /\ file.text = stable_state.content,
              by |-> "event"]
    /\ loop_state' = after_reload(loop_state, file)
    /\ current_state' = stable_state
    /\ current_age' = stable_age
    /\ EndEvent("stable")
    /\ UNCHANGED <<file, event_queue, last_event_age, accepted_age>>
    /\ UNCHANGED pvars

\* _process_file enters the callback and a Publisher call of the publish loop
\* (playout_handler.py lines 330-343, no timeout) never returns: the
\* dispatch thread stays inside on_any_event, the lock stays set
PublisherHangs ==
    /\ wpc = "process"
    /\ wpc' = "hung"
    /\ cb' = [called |-> TRUE,
              same |-> file.exists /\ file.readable
                         /\ file.text = stable_state.content,
              by |-> "event"]
    /\ UNCHANGED <<file, event_queue, processing_lock, current_state,
                   current_age, last_event_age, elapsed, previous_state,
                   stable_count, stable_state, stable_age, accepted_age, obs,
                   loop_state>>
    /\ UNCHANGED pvars

\* ------------------------------------------------------------------
\* The watch loop of start_file_watch, lines 225-239, on the main thread
\* ------------------------------------------------------------------
\* reload_callback is the one-parameter lambda of main.py line 76 and is
\* called without an argument: the call raises TypeError before the lambda
\* is entered, line 236 catches it, and the finally takes the time. The
\* loop shares no lock with on_any_event, which the observer's thread runs.
ForceCheck ==
    /\ loop_state # NotWatching
    /\ loop_state.age > next_check_time(loop_state)
    /\ loop_state' = [loop_state EXCEPT !.age = 0]
    /\ UNCHANGED <<file, event_queue, processing_lock, current_state,
                   current_age, last_event_age, wpc, elapsed, previous_state,
                   stable_count, stable_state, stable_age, accepted_age, obs,
                   cb>>
    /\ UNCHANGED pvars

WInit ==
    /\ file \in FileContents
    /\ event_queue = <<>>
    /\ processing_lock = FALSE
    /\ current_state = NoFileState
    /\ current_age = debounce_time
    /\ last_event_age = debounce_time
    /\ wpc = "idle"
    /\ elapsed = 0
    /\ previous_state = NoFileState
    /\ stable_count = 0
    /\ stable_state = NoFileState
    /\ stable_age = 0
    /\ accepted_age = debounce_time
    /\ obs = [NewAttempt EXCEPT !.result = "none"]
    /\ cb = NotCalled

WNext ==
    \/ \E c \in FileContents : WriteFile(c)
    \/ \E k \in EventKinds : EmitEvent(k)
    \/ Tick
    \/ OnAnyEvent
    \/ PollTimeout
    \/ PollFailed
    \/ PollDiffer
    \/ PollMatch
    \/ PollStable
    \/ ProcessFile

\* ------------------------------------------------------------------
\* Specifications
\* ------------------------------------------------------------------
\* the track pipeline fed with a sequence of file contents; the watcher rests
Init ==
    /\ PInit
    /\ hist = NoHist(FALSE)
    /\ WInit
    /\ file = Missing
    /\ loop_state = NotWatching

Spec == Init /\ [][PNext]_vars

\* the watcher on a file the playout tool rewrites at will; the pipeline rests
InitWatch ==
    /\ PInit
    /\ hist = NoHist(FALSE)
    /\ state = InitState(0)
    /\ do_publish_socials = TRUE
    /\ disabled_services = {}
    /\ WInit
    /\ loop_state = NotWatching

SpecWatch == InitWatch /\ [][WNext]_vars

\* the publish coordinator with its ledger, across restarts, every publish
\* call recorded
InitLedger ==
    /\ PInit
    /\ state = InitState(0)
    /\ do_publish_socials = TRUE
    /\ disabled_services = {}
    /\ hist = NoHist(TRUE)
    /\ WInit
    /\ file = Missing
    /\ loop_state = NotWatching

SpecLedger == InitLedger /\ [][LedgerNext]_vars

\* the pipeline under configuration reloads, the watch loop running
InitConfig ==
    /\ PInit
    /\ hist = NoHist(FALSE)
    /\ state = InitState(0)
    /\ WInit
    /\ file = Missing
    /\ loop_state = [age |-> 0, duration |-> 0]

SpecConfig == InitConfig /\ [][ConfigNext]_vars

\* the extraction of tracks from a sequence of decoded contents, the names
\* given recorded
InitExtract ==
    /\ pc = "idle"
    /\ svc_idx = 0
    /\ data \in ExtractInputs
    /\ now_playing = NoTrack
    /\ state = InitState(0)
    /\ ledger = [s \in Services |-> <<>>]
    /\ publish_dir = {}
    /\ playlist = NoPlaylist
    /\ uuid_next = 0
    /\ do_publish_socials = TRUE
    /\ disabled_services = {}
    /\ faults_left = MaxFaults
    /\ cyc = NoCycle
    /\ publisher = NoPublisher
    /\ restarts = NoRestarts
    /\ hist = NoHist(TRUE)
    /\ WInit
    /\ file = Missing
    /\ loop_state = NotWatching

SpecExtract == InitExtract /\ [][ExtractNext]_vars

\* the decoding of a playout file the tool rewrites
InitParse ==
    /\ pc = "idle"
    /\ svc_idx = 0
    /\ data = NoData
    /\ now_playing = NoTrack
    /\ state = InitState(0)
    /\ ledger = [s \in Services |-> <<>>]
    /\ publish_dir = {}
    /\ playlist = NoPlaylist
    /\ uuid_next = 0
    /\ do_publish_socials = TRUE
    /\ disabled_services = {}
    /\ faults_left = MaxFaults
    /\ cyc = NoCycle
    /\ publisher = NoPublisher
    /\ restarts = NoRestarts
    /\ hist = NoHist(FALSE)
    /\ file \in {playout_file(body) : body \in Bodies}
    /\ event_queue = <<>>
    /\ processing_lock = FALSE
    /\ current_state = NoFileState
    /\ current_age = debounce_time
    /\ last_event_age = debounce_time
    /\ wpc = "idle"
    /\ elapsed = 0
    /\ previous_state = NoFileState
    /\ stable_count = 0
    /\ stable_state = NoFileState
    /\ stable_age = 0
    /\ accepted_age = debounce_time
    /\ obs = [NewAttempt EXCEPT !.result = "none"]
    /\ cb = NotCalled
    /\ loop_state = NotWatching

SpecParse == InitParse /\ [][ParseNext]_vars

\* the duplicate decision over tracks with colons in artist and title
InitFingerprint ==
    /\ PInit
    /\ state = InitState(0)
    /\ do_publish_socials = TRUE
    /\ disabled_services = {}
    /\ hist = NoHist(FALSE)
    /\ WInit
    /\ file = Missing
    /\ loop_state = NotWatching

SpecFingerprint == InitFingerprint /\ [][FingerprintNext]_vars

\* the dispatch thread keeps running: a started attempt goes on polling
ThreadStep ==
    PollTimeout \/ PollFailed \/ PollDiffer \/ PollMatch \/ PollStable
        \/ ProcessFile

FairSpecWatch == SpecWatch /\ WF_vars(ThreadStep)

\* the watcher with Publisher calls that may never return; the dispatch
\* thread keeps running and takes the queued events whenever it is free
HangNext == WNext \/ PublisherHangs

SpecHang ==
    /\ InitWatch
    /\ [][HangNext]_vars
    /\ WF_vars(ThreadStep)
    /\ WF_vars(OnAnyEvent)

\* the watcher together with the watch loop of the main thread, which
\* starts after the initial reload of main.py line 68
InitLoop ==
    /\ PInit
    /\ hist = NoHist(FALSE)
    /\ state = InitState(0)
    /\ do_publish_socials = TRUE
    /\ disabled_services = {}
    /\ WInit
    /\ loop_state \in {[age |-> 0, duration |-> d] : d \in {0, TrackTicks}}

LoopNext == WNext \/ ForceCheck

SpecLoop == InitLoop /\ [][LoopNext]_vars

\* ------------------------------------------------------------------
\* Properties of the track pipeline
\* ------------------------------------------------------------------
SessionFields(st) ==
    <<st.last_processed_checksum, st.tracks_played, st.last_program_name,
      st.last_published_image>>

NoSideEffects ==
    /\ ledger' = ledger
    /\ publish_dir' = publish_dir
    /\ playlist' = playlist
    /\ cyc'.n_pub = ZeroCount
    /\ cyc'.n_remove = 0 /\ cyc'.n_copy = 0 /\ cyc'.n_playlist = 0

\* A step of reload_playout_file: the pipeline is entered only when idle
ReloadStep == pc = "idle"

\* A reload whose snapshot carries the fingerprint of the snapshot before it
RepeatedFingerprintStep ==
    /\ ReloadStep
    /\ cyc.fp # None
    /\ cyc'.fp = cyc.fp

\* C1: a snapshot whose artist:title fingerprint equals that of the snapshot
\* processed just before it invokes no Publisher, removes and copies no
\* artwork, does not rewrite playlist.json and leaves fingerprint, track
\* counter, program name, last published image and the ledger unchanged.
C1_DuplicateSuppression ==
    [][RepeatedFingerprintStep =>
         /\ SessionFields(state') = SessionFields(state)
         /\ NoSideEffects
         /\ pc' = "idle"]_vars

C1_Witness ==
    /\ cyc.kind = "duplicate"
    /\ state.tracks_played > 0
    /\ playlist.shape = "song"
    /\ \E s \in Services : ledger[s] # <<>>

EnabledService(s) == do_publish_socials /\ s \notin disabled_services

\* C2: every genuine track change (a song whose fingerprint differs from
\* last_processed_checksum) outside the skip lists ends with publish_socials
\* called exactly once for each enabled service, one artwork copy and one
\* rewrite of playlist.json.
C2_ExactlyOncePerTrackChange ==
    (pc = "idle" /\ cyc.genuine /\ ~cyc.skip) =>
        /\ \A s \in Services : EnabledService(s) => cyc.n_dispatch[s] = 1
        /\ cyc.n_copy = 1
        /\ cyc.n_playlist = 1

\* A reload of a placeholder snapshot
PlaceholderStep == ReloadStep /\ cyc'.placeholder

\* C3: processing a placeholder leaves the track counter, the program name,
\* the fingerprint and the last published image unchanged and invokes no
\* Publisher; it copies the default artwork and writes playlist.json in its
\* reduced shape, and nothing else.
C3_PlaceholderIdempotence ==
    [][PlaceholderStep =>
         /\ SessionFields(state') = SessionFields(state)
         /\ cyc'.n_pub = ZeroCount /\ cyc'.n_dispatch = ZeroCount
         /\ ledger' = ledger
         /\ publish_dir' = publish_dir \cup {DefaultArt}
         /\ playlist'.shape = "reduced" /\ playlist'.image = DefaultArt
         /\ pc' = "idle"]_vars

C3_Witness ==
    /\ cyc.placeholder
    /\ state.tracks_played > 0
    /\ state.last_published_image # NoImage
    /\ playlist.shape = "reduced"

\* artist ":" title of the track extracted from each snapshot
SongPrint ==
    [d \in Snapshots |-> strip(d.artist) \o <<":">> \o clean_title(d.title)]

\* A reload of song d
SongStep(d) == pc = "idle" /\ cyc'.fp = SongPrint[d] /\ ReloadSong(d)

\* A reload of song d whose fingerprint differs from the last processed one
GenuineStep(d) == cyc'.genuine /\ SongStep(d)

TimestampOk(d) == d.starttime \in {"ok", "badformat"}

\* C13: a genuine new track sets the last processed fingerprint to
\* artist ":" title of the extracted track and the current track duration to
\* its duration, and removes the artwork named by the last published image
\* from the publish directory and nothing else; with no previous image, or
\* with its file already gone, nothing is removed and the cycle goes on.
C13_GenuineTrackUpdatesState ==
    [][(pc = "idle" /\ cyc'.genuine) =>
         \A d \in Snapshots : cyc'.fp = SongPrint[d] =>
            \* the updates are those of d, or the step is no reload of d
            \/ /\ state'.last_processed_checksum = SongPrint[d]
               /\ state'.current_track_duration = int_duration(d)
               /\ publish_dir' = publish_dir \ {state.last_published_image}
               /\ TimestampOk(d) =>
                    /\ cyc'.kind \in {"new", "skipped"}
                    /\ state'.tracks_played = state.tracks_played + 1
            \/ ~ReloadSong(d)]_vars

C13_Witness ==
    /\ pc = "publish"
    /\ cyc.genuine
    /\ state.last_published_image # NoImage
    /\ state.last_published_image \notin publish_dir
    /\ state.current_track_duration = 180

\* C14: a genuine new track whose program differs from the last program
\* name, the first track included, resets the track counter, sets the
\* program start time and records the program; so after any genuine new
\* track the last program name is that track's program.
C14_ProgramTransition ==
    [][pc = "idle" => \A d \in Snapshots :
         (GenuineStep(d) /\ TimestampOk(d)) =>
         /\ state'.last_program_name = d.program
         /\ d.program # state.last_program_name =>
              state'.program_start_time = "set"]_vars

\* C15: the track counter is the number of genuine new tracks since the
\* current program started: a genuine new track that follows a published
\* track of the same program adds one, and one that opens a session or
\* follows a published track of another program leaves it at one.
C15_TracksPlayedPerProgram ==
    [][pc = "idle" => \A d \in Snapshots :
         (GenuineStep(d) /\ TimestampOk(d) /\ cyc.kind \in {"none", "new"}) =>
            state'.tracks_played =
               IF cyc.kind = "new" /\ playlist.program_title = d.program
               THEN state.tracks_played + 1 ELSE 1]_vars

OnSkipList(artist, title) == artist \in {<<"s">>} \/ title \in {<<"k">>}

\* C16: no Publisher is invoked, for any service, for a track whose artist or
\* title is in the skip lists, and the ledger never records such a track.
C16_SkipListNeverPublished ==
    /\ (pc # "idle" /\ OnSkipList(now_playing.artist, now_playing.title))
          => cyc.n_pub = ZeroCount
    /\ cyc.kind = "skipped" => cyc.n_pub = ZeroCount
    /\ \A s \in Services : \A i \in 1..Len(ledger[s]) :
          ~OnSkipList(ledger[s][i][1], ledger[s][i][2])

C16_Witness ==
    /\ cyc.kind = "skipped"
    /\ do_publish_socials /\ disabled_services = {}
    /\ state.tracks_played = 2
    /\ \E s \in Services : ledger[s] # <<>>

\* C17: a genuine new track on a skip list still has playlist.json rewritten
\* with its metadata.
C17_SkippedTrackOnAir ==
    [][pc = "idle" => \A d \in Snapshots :
         (GenuineStep(d) /\ TimestampOk(d) /\ cyc'.skip) =>
            /\ playlist'.shape = "song"
            /\ playlist'.artist = d.artist /\ playlist'.title = d.title]_vars

AllDispatched == \A s \in Services : cyc.n_dispatch[s] = 1

ImageSet == state.last_published_image = now_playing.publish_image

\* C18: in the cycle of a genuine new track outside the skip lists
\* publish_socials has been called for every service before the artwork is
\* copied, the artwork is copied before playlist.json is rewritten, and the
\* last published image is set to the track's image only after both.
C18_PublishThenWebFiles ==
    /\ [][pc # "idle" =>
            /\ cyc'.n_dispatch # cyc.n_dispatch =>
                  cyc.n_copy = 0 /\ cyc.n_playlist = 0 /\ ~ImageSet
            /\ cyc'.n_copy # cyc.n_copy =>
                  AllDispatched /\ cyc.n_playlist = 0 /\ ~ImageSet
            /\ cyc'.n_playlist # cyc.n_playlist =>
                  AllDispatched /\ cyc.n_copy = 1 /\ ~ImageSet
            /\ state'.last_published_image # state.last_published_image =>
                  /\ AllDispatched /\ cyc.n_copy = 1 /\ cyc.n_playlist = 1
                  /\ state'.last_published_image = now_playing.publish_image
                  /\ now_playing.publish_image \in publish_dir
                  /\ playlist.image = now_playing.publish_image]_vars
    /\ []((pc = "idle" /\ cyc.kind = "new") =>
            /\ AllDispatched /\ cyc.n_copy = 1 /\ cyc.n_playlist = 1
            /\ playlist.image = state.last_published_image)

C18_Witness ==
    /\ pc = "image"
    /\ AllDispatched /\ cyc.n_copy = 1 /\ cyc.n_playlist = 1
    /\ ~ImageSet
    /\ state.last_published_image # NoImage

\* the latest reload raised: in extraction (caught at line 352 or at line 56
\* of main.py) or after the state update (the start time, caught at 352)
FailedCycle == cyc.kind \in {"error", "aborted"}

\* C19: a failure while a snapshot is processed is caught: the pipeline is
\* back at rest, and a later song whose fingerprint differs from the last
\* processed one is processed as a new track.
C19_FailureIsContained ==
    /\ [](FailedCycle => pc = "idle")
    /\ [][(FailedCycle /\ uuid_next' # uuid_next) =>
            \A d \in Snapshots :
               (/\ cyc'.fp = SongPrint[d]
                /\ SongPrint[d] # state.last_processed_checksum
                /\ TimestampOk(d)) =>
                  \* d is processed as a new track, or the step is no
                  \* reload of d
                  \/ /\ cyc'.genuine /\ cyc'.kind \in {"new", "skipped"}
                     /\ state'.last_processed_checksum = SongPrint[d]
                     /\ state'.tracks_played = state.tracks_played + 1
                     /\ cyc'.kind = "new" => pc' = "publish"
                  \/ ~SongStep(d)]_vars

C19_Witness ==
    /\ pc = "idle" /\ cyc.kind = "new"
    /\ uuid_next = 2 /\ state.tracks_played = 1
    /\ \E s \in Services : ledger[s] # <<>>

\* C20: with social publishing switched off no service is published to, no
\* ledger is read and none is written; a service named in disable_services
\* is never published to and its ledger is neither read nor written, while
\* the services not named there are dispatched and published as usual.
C20_DisabledServicesUntouched ==
    /\ ~do_publish_socials =>
          /\ cyc.n_pub = ZeroCount /\ cyc.n_lookup = ZeroCount
          /\ \A s \in Services : ledger[s] = <<>>
    /\ \A s \in disabled_services :
          cyc.n_pub[s] = 0 /\ cyc.n_lookup[s] = 0 /\ ledger[s] = <<>>
    /\ \A s \in Services :
          (do_publish_socials /\ s \notin disabled_services
             /\ cyc.n_dispatch[s] = 1 /\ ~cyc.skip) => cyc.n_lookup[s] = 1

C20_Witness ==
    /\ do_publish_socials /\ disabled_services = {"Facebook"}
    /\ cyc.n_dispatch["Facebook"] = 1
    /\ cyc.n_pub["Last.FM"] = 1
    /\ ledger["Last.FM"] # <<>>

\* a reload of content d, whichever way it ends
Reload(d) == ReloadError(d) \/ ReloadPlaceholder(d) \/ ReloadSong(d)

BadDuration(d) == d.duration \in {DurAbsent, DurNonNumeric}

\* C31: a snapshot of a valid song whose duration is absent or not a number
\* is extracted with duration 0 and processed as any other song: the cycle
\* neither ends in an error nor is aborted, and if the track is new its
\* fingerprint is recorded with a current track duration of 0.
C31_BadDurationProcessed ==
    [][pc = "idle" =>
          \A d \in Snapshots :
              (is_valid_song(d) /\ BadDuration(d) /\ TimestampOk(d)) =>
                  \/ /\ cyc'.kind \in {"new", "skipped", "duplicate"}
                     /\ cyc'.genuine =>
                            /\ state'.last_processed_checksum = SongPrint[d]
                            /\ state'.current_track_duration = 0
                  \/ ~Reload(d)]_vars

\* C32: the playlist.json written for a song carries the fields of the
\* extracted track: its title is the cleaned title and its artist the
\* extracted artist.
C32_PlaylistCarriesTrack ==
    (pc = "image" /\ playlist.shape = "song") =>
        /\ playlist.title = now_playing.title
        /\ playlist.artist = now_playing.artist

\* a cycle has run to its end: no exception cut it short
CycleCompleted ==
    pc = "idle" /\ cyc.kind \in {"new", "skipped", "duplicate", "placeholder"}

\* C35: after every completed cycle the artwork file the image field of
\* playlist.json names is in the publish directory, whatever new, skipped,
\* duplicate and placeholder tracks have been processed.
C35_PlaylistImageExists ==
    (CycleCompleted /\ playlist.shape # "absent") =>
        playlist.image \in publish_dir

\* the uniquely named artwork files in the publish directory
UniqueArtwork == publish_dir \ {DefaultArt}

\* C36: at any time the publish directory holds at most one uniquely named
\* artwork file; after a cycle that copied artwork no such file is there but
\* the one last_published_image names, and after the cycle of a new track
\* that file is there. No sequence of new, skipped, duplicate and
\* placeholder tracks piles artwork files up.
C36_OneArtworkFile ==
    /\ Cardinality(UniqueArtwork) <= 1
    /\ (pc = "idle" /\ cyc.n_copy > 0) =>
           /\ UniqueArtwork \subseteq {state.last_published_image}
           /\ cyc.kind = "new" => UniqueArtwork = {state.last_published_image}

\* a second new track has been processed, a placeholder in between: the
\* artwork of the first is gone and that of the second is there
C36_Witness ==
    /\ pc = "idle"
    /\ cyc.kind = "new"
    /\ cyc.n_copy > 0
    /\ state.last_published_image = UuidName(2)
    /\ publish_dir = {DefaultArt, UuidName(2)}

\* ------------------------------------------------------------------
\* Properties of the publish coordinator and its ledger
\* ------------------------------------------------------------------
\* the service's rows hold the track
in_ledger(s, artist, title) ==
    \E i \in 1..Len(ledger[s]) : ledger[s][i] = <<artist, title>>

\* publish_socials is called for service s
CallStep(s) ==
    /\ pc = "publish" /\ ServiceOrder[svc_idx] = s
    /\ cyc'.n_dispatch[s] = cyc.n_dispatch[s] + 1

\* the call of this step reached the Publisher
Invoked(s) == cyc'.n_pub[s] = cyc.n_pub[s] + 1

\* ledger faults so far: failed statements and stops inside an update
LedgerTrouble == faults_left < MaxFaults \/ restarts.torn > 0

C22_LedgerSingleSlot ==
    /\ [](\A s \in Services : Len(ledger[s]) <= 1)
    /\ [][\A s \in Services :
            ledger'[s] # ledger[s] =>
               ledger'[s] = <<(<<now_playing.artist, now_playing.title>>)>>]_vars

\* the process stops and starts in this step
RestartStep == restarts' # restarts

TrackOnAir == <<now_playing.artist, now_playing.title>>

\* C24: a slot changes only in a call for its service whose Publisher
\* reported success, and then holds exactly the track just published; a
\* failed or skipped publication leaves it unchanged.
C24_SlotHoldsPublishedTrack ==
    [][\A s \in Services :
         ledger'[s] # ledger[s] =>
            /\ CallStep(s) /\ Invoked(s) /\ s \notin hist'.pub_fail
            /\ ledger'[s] = <<TrackOnAir>>]_vars

\* What the code keeps of it: a slot changes only in a call for its service
\* whose Publisher reported success (the stop of the process inside the
\* update included); when neither ledger statement fails and the process
\* does not stop, the slot then holds exactly the track just published; a
\* call that short-circuits, or whose Publisher fails, leaves the slot
\* unchanged.
SlotFollowsSuccess ==
    /\ [][\A s \in Services :
            ledger'[s] # ledger[s] =>
               /\ pc = "publish" /\ ServiceOrder[svc_idx] = s
               /\ hist'.sent[s] = mark_sent(hist.sent[s], TrackOnAir[1],
                                            TrackOnAir[2])
               /\ (faults_left' = faults_left /\ ~RestartStep) =>
                     (Invoked(s) /\ ledger'[s] = <<TrackOnAir>>)]_vars
    /\ [][\A s \in Services :
            (CallStep(s) /\ (~Invoked(s) \/ s \in hist'.pub_fail)) =>
               ledger'[s] = ledger[s] /\ hist'.sent[s] = hist.sent[s]]_vars

SlotFollowsSuccess_Reached ==
    /\ pc = "publish" /\ svc_idx = 3
    /\ TrackOnAir = <<(<<"b">>), (<<"t">>)>>
    /\ hist.pub_fail = {"Last.FM"}
    /\ ledger["Last.FM"] = <<(<<(<<"a">>), (<<"t">>)>>)>>
    /\ ledger["Listenbrainz"] = <<TrackOnAir>>
    /\ ledger["Facebook"] = <<(<<(<<"a">>), (<<"t">>)>>)>>

\* C25: a call whose ledger lookup fails goes on to the Publisher, and a call
\* that passed the configuration checks stops short of the Publisher only
\* when its lookup succeeded and found the track in the service's slot.
C25_LedgerFailOpen ==
    [][\A s \in Services :
         CallStep(s) =>
            /\ s \in hist'.lookup_err => Invoked(s)
            /\ (lookup_reached(s) /\ ~Invoked(s)) =>
                  /\ s \notin hist'.lookup_err
                  /\ in_ledger(s, TrackOnAir[1], TrackOnAir[2])]_vars

C25_Witness ==
    /\ pc = "publish" /\ svc_idx = 2
    /\ hist.lookup_err = {"Last.FM"}
    /\ cyc.n_pub["Last.FM"] = 1
    /\ hist.sent["Last.FM"] = [track |-> TrackOnAir, n |-> 2]
    /\ restarts = [clean |-> 1, torn |-> 0]

\* C26: a call whose Publisher fails is followed by the call for the next
\* service, or by the artwork copy after the last service, and a cycle in
\* which a Publisher failed still ends with every service called, the
\* artwork copied, playlist.json rewritten and the last published image set
\* to the image of that playlist.
C26_PublishFailureContained ==
    /\ [][\A s \in Services :
            (CallStep(s) /\ s \in hist'.pub_fail) =>
               IF svc_idx = Len(ServiceOrder)
               THEN pc' = "artwork"
               ELSE pc' = "publish" /\ svc_idx' = svc_idx + 1]_vars
    /\ []((pc = "idle" /\ hist.pub_fail # {}) =>
            /\ cyc.kind = "new"
            /\ AllDispatched
            /\ \A s \in Services : cyc.n_lookup[s] = 1
            /\ cyc.n_copy = 1 /\ cyc.n_playlist = 1
            /\ state.last_published_image = UuidName(uuid_next)
            /\ playlist.image = state.last_published_image
            /\ state.last_published_image \in publish_dir)

C26_Witness ==
    /\ pc = "idle" /\ cyc.kind = "new"
    /\ hist.pub_fail = {"Last.FM"}
    /\ ledger["Last.FM"] = <<>>
    /\ \A s \in Services \ {"Last.FM"} :
          cyc.n_pub[s] = 1 /\ Len(ledger[s]) = 1
    /\ playlist.image = UuidName(1)
    /\ state.last_published_image = UuidName(1)

\* ------------------------------------------------------------------
\* Properties of the configuration reload
\* ------------------------------------------------------------------
\* a step that changes the configuration: only reload_config makes one
ConfigStep ==
    <<do_publish_socials, disabled_services>>' #
        <<do_publish_socials, disabled_services>>

\* C28: a configuration reload changes the configuration only: the session
\* state (last fingerprint, last program name, tracks played in the program,
\* last published image name, current track duration) and the ledger are
\* as before, the cycle in progress stays where it is, and the watch loop
\* and the watcher are as they were, the loop still running.
C28_ReloadChangesConfigOnly ==
    [][ConfigStep =>
          /\ state' = state
          /\ ledger' = ledger
          /\ UNCHANGED <<pc, svc_idx, data, now_playing, publish_dir,
                         playlist, uuid_next, cyc, publisher>>
          /\ UNCHANGED wvars
          /\ loop_state' # NotWatching]_vars

\* the configuration was reloaded in the middle of a cycle of a session
\* that has played a track and recorded a publish
C28_Witness ==
    /\ pc = "publish"
    /\ publisher.made
    /\ publisher.do_publish_socials # do_publish_socials
    /\ state.tracks_played > 0
    /\ state.last_processed_checksum # None
    /\ \E s \in Services : ledger[s] # <<>>
    /\ loop_state # NotWatching

\* ------------------------------------------------------------------
\* Properties of the track extraction
\* ------------------------------------------------------------------
IsBlank(str) == \A i \in 1..Len(str) : str[i] = " "

\* the placeholder track of the specification
IsPlaceholderTrack(t) ==
    /\ t.artist = <<>> /\ t.title = <<>>
    /\ t.album = "" /\ t.publisher = "" /\ t.ISRC = ""
    /\ t.duration = 0
    /\ t.publish_image = DefaultArt

\* C29: extract returns the placeholder track (empty artist, title, album,
\* publisher and ISRC, duration 0, the default-artwork name) exactly when the
\* artist or the title of the input is empty after trimming; otherwise the
\* track has a new image-publish-name, which is neither the default-artwork
\* name nor a name an earlier extraction gave.
C29_PlaceholderIffBlank ==
    [][(pc = "idle" /\ pc' = "extracted") =>
          /\ IsPlaceholderTrack(now_playing') <=>
                 (IsBlank(data.artist) \/ IsBlank(data.title))
          /\ ~(IsBlank(data.artist) \/ IsBlank(data.title)) =>
                 /\ now_playing'.publish_image # DefaultArt
                 /\ now_playing'.publish_image \notin hist.names
                 /\ now_playing'.publish_image \in hist'.names]_vars

\* two songs have been extracted, each under its own name, and now a
\* placeholder is returned for an input whose artist is blank, not empty
C29_Witness ==
    /\ pc = "extracted"
    /\ IsPlaceholderTrack(now_playing)
    /\ data.artist # <<>>
    /\ Cardinality(hist.names) >= 2

Brackets == {"(", "[", "<"}

HasBracket(title) == \E i \in 1..Len(title) : title[i] \in Brackets

\* the part of title before its first bracket, all of it if it has none
PrefixBeforeBracket(title) ==
    IF HasBracket(title)
    THEN LET first == CHOOSE i \in 1..Len(title) :
                          /\ title[i] \in Brackets
                          /\ \A j \in 1..(i - 1) : title[j] \notin Brackets
         IN SubSeq(title, 1, first - 1)
    ELSE title

\* r is str without the spaces at its two ends
IsTrimOf(r, str) ==
    \E i \in 1..(Len(str) + 1), j \in 0..Len(str) :
        /\ r = SubSeq(str, i, j)
        /\ \A k \in 1..(i - 1) : str[k] = " "
        /\ \A k \in (j + 1)..Len(str) : str[k] = " "
        /\ r # <<>> => r[1] # " " /\ r[Len(r)] # " "

\* C30: the cleaned title is the part of the raw title before the first of
\* '(', '[', '<', without the spaces at its ends; a title with none of the
\* three is returned as it is apart from the trimming; and cleaning a cleaned
\* title gives it back.
C30_CleanTitle ==
    pc = "cleaned" =>
        /\ IsTrimOf(now_playing.title, PrefixBeforeBracket(data.title))
        /\ ~HasBracket(data.title) => IsTrimOf(now_playing.title, data.title)
        /\ clean_title(now_playing.title) = now_playing.title

\* a title with text, a space and then a bracket has been cleaned
C30_Witness ==
    /\ pc = "cleaned"
    /\ data.title = <<"t", " ", "[">>
    /\ now_playing.title = <<"t">>

\* ------------------------------------------------------------------
\* Properties of the decoding
\* ------------------------------------------------------------------
\* C33: content that is strictly valid JSON decodes to its own field values:
\* the repair is applied only when the strict decoding has failed, and never
\* turns valid content into an error or into other values.
C33_ValidJsonDecodesToItself ==
    (pc \in {"loaded", "parsed"} /\ json_loads(file.text) # JSONDecodeError)
        => /\ data # NoData
           /\ data.title = json_loads(file.text)

\* safe_json_loads, which nothing calls, is the decoding the specification
\* describes
SafeJsonLoadsStrictFirst ==
    (pc = "parsed" /\ json_loads(file.text) # JSONDecodeError)
        => /\ data # NoData
           /\ data.title = json_loads(file.text)

\* ------------------------------------------------------------------
\* Properties of the file watcher
\* ------------------------------------------------------------------
\* C27: an event the observer queues for a change of the playout file made
\* while a Publisher call is outstanding is taken up by on_any_event.
C27_HungPublisherDoesNotStall ==
    (wpc = "hung" /\ event_queue # <<>>) ~> (event_queue = <<>>)

\* ------------------------------------------------------------------
Returns == {"stable", "invalid", "duplicate"}

\* a poll of the running attempt, and the poll that returns a snapshot
PollStep ==
    /\ wpc = "wait"
    /\ \/ obs'.result = "running" /\ obs'.polled # obs.polled
       \/ obs'.result \in Returns
ReturnStep == wpc = "wait" /\ obs'.result \in Returns

\* the FileState s holds the snapshot n
HoldsSnapshot(s, n) ==
    IF n = NoSnapshot THEN s = NoFileState
    ELSE s.size = n.size /\ s.content = n.text

\* C4: the attempt returns a snapshot only after stability_checks matching
\* polls in a row: the returning poll and the stability_checks - 1 polls
\* before it all read a snapshot equal to their baseline, and the returned
\* snapshot equals each of the stability_checks snapshots read before it (a
\* failed poll may lie between the oldest of these and the next); a read
\* that differs from the baseline resets the counter to 0 and becomes the
\* baseline.
C4_StableAfterThreshold ==
    /\ [][ReturnStep =>
            LET o == Observe(file, "stable")
            IN  /\ o.run_polls >= stability_checks
                /\ o.run_reads >= stability_checks + 1
                /\ (wpc' = "process" => HoldsSnapshot(stable_state', o.last_read))]_vars
    /\ [][(PollStep /\ ReadableFile(file) /\ obs.last_read # NoSnapshot
             /\ ~SnapshotsEqual(obs.last_read, SnapshotOf(file)))
          => (stable_count' = 0 /\ wpc' = "wait"
                /\ HoldsSnapshot(previous_state', SnapshotOf(file)))]_vars

\* C4 as claimed: the stability_checks polls right before the returning poll
\* all read a snapshot equal to the returned one, none of them failed.
C4_NoFailedReadBefore ==
    [][ReturnStep =>
         Observe(file, "stable").run_polls >= stability_checks + 1]_vars

C4_Witness ==
    /\ wpc = "process"
    /\ obs.run_polls = stability_checks
    /\ obs.run_reads = stability_checks + 1

\* C5: a file that is readable, of min_file_size bytes and unchanged for
\* stability_checks + 1 polls in a row of one attempt makes the attempt
\* return a snapshot, however the polls are timed.
C5_StabilityIdempotence ==
    obs.run_polls >= stability_checks + 1 => obs.result \in Returns

\* C5 as claimed: stability_checks unchanged polls in a row suffice.
C5_ThresholdPollsSuffice ==
    obs.run_polls >= stability_checks => obs.result \in Returns

C5_Witness ==
    /\ obs.result = "stable"
    /\ obs.run_polls = stability_checks + 1
    /\ elapsed > stability_checks

\* C6: a poll that finds the file missing, smaller than min_file_size or
\* unreadable resets the counter to 0 and returns nothing, and the baseline
\* stays the snapshot read last.
C6_FailedReadResets ==
    [][(PollStep /\ (~file.exists \/ file.size < min_file_size \/ ~file.readable))
       => /\ stable_count' = 0
          /\ wpc' = "wait" /\ stable_state' = NoFileState
          /\ previous_state' = previous_state
          /\ HoldsSnapshot(previous_state', obs.last_read)]_vars

C6_Witness ==
    /\ wpc = "wait"
    /\ obs.failed
    /\ previous_state # NoFileState
    /\ obs.run_reads >= stability_checks

\* C7: content that does not parse as JSON, even after repair, is never
\* returned as a stable snapshot and never handed to the callback.
C7_UnparsableNeverStable ==
    /\ wpc = "process" => Parses(stable_state.content)
    /\ current_state # NoFileState => Parses(current_state.content)

\* C8: every stabilization attempt ends; when it ends by timeout the callback
\* is not invoked and the last processed FileState stays as it was.
C8_AttemptTerminates ==
    /\ (wpc = "wait") ~> (wpc # "wait")
    /\ [][(wpc = "wait" /\ wpc' # "wait" /\ obs'.result = "timeout")
          => (~cb'.called /\ current_state' = current_state /\ wpc' = "idle"
                /\ ~processing_lock')]_vars

C8_Witness ==
    /\ obs.result = "timeout"
    /\ wpc = "idle"
    /\ current_state # NoFileState

\* a step of the watch loop's forced check
ForceCheckStep ==
    /\ loop_state # NotWatching
    /\ loop_state.age > next_check_time(loop_state)
    /\ loop_state'.age = 0
    /\ wpc' = wpc

\* C11: the forced periodic check never runs while a stabilization or
\* processing cycle started by a filesystem event is in flight.
C11_ForceCheckExclusive ==
    [][ForceCheckStep => ~InAttempt]_vars

\* C12: once last_processed_time + current_track_duration + event_timeout
\* has passed, the forced check of the watch loop enters the reload callback:
\* the playout file is read again and run through track processing.
C12_ForceCheckReprocesses ==
    [][ForceCheckStep => (cb'.called /\ cb'.by = "force")]_vars

\* an event leaves the queue and starts a stabilization attempt
StartsAttempt == wpc = "idle" /\ wpc' = "wait"

\* C9: at most one cycle runs at a time, and an event the observer raised
\* while an attempt was running never starts a cycle of its own.
C9_EventDuringAttemptDiscarded ==
    /\ [](processing_lock <=> InAttempt)
    /\ [][StartsAttempt => ~Head(event_queue).during]_vars

\* C10: no event starts an attempt less than debounce_time after the event
\* that started the attempt before it.
C10_Debounce ==
    [][StartsAttempt => accepted_age >= debounce_time]_vars

\* C34: the content the callback processes after a successful stabilization
\* is the content of the stable snapshot the detector returned, whatever is
\* written to the file between the detector's return and the processing.
C34_ProcessedContentIsStable ==
    (cb.called /\ cb.by = "event") => cb.same

\* a reload of a song whose fingerprint is the one last recorded
RereadStep ==
    /\ pc = "idle"
    /\ cyc'.fp # None
    /\ cyc'.fp = state.last_processed_checksum

\* C37: the fingerprint of a song is recorded when its cycle starts, before
\* any Publisher is invoked and whatever the cycle comes to; a cycle invokes
\* the Publisher of a service at most once; and a later snapshot with the
\* recorded fingerprint is a duplicate: no Publisher is invoked and nothing
\* is retried, also when a publish attempt of the run failed or the cycle of
\* the new track was aborted.
C37_NoRetryWithinRun ==
    /\ [](cyc.kind \in {"new", "skipped", "aborted", "duplicate"} =>
             state.last_processed_checksum = cyc.fp)
    /\ [](\A s \in Services : cyc.n_pub[s] <= 1)
    /\ [][RereadStep =>
             /\ cyc'.kind = "duplicate"
             /\ cyc'.n_pub = ZeroCount /\ cyc'.n_dispatch = ZeroCount
             /\ NoSideEffects
             /\ state' = state
             /\ pc' = "idle"]_vars

\* the one track played so far was read again as a duplicate, and the
\* service whose publish attempt had failed still has no record of it
C37_Witness ==
    /\ cyc.kind = "duplicate"
    /\ state.tracks_played = 1
    /\ do_publish_socials /\ disabled_services = {}
    /\ ledger["Last.FM"] = <<>>
    /\ ledger["Listenbrainz"] # <<>>

\* C38: a placeholder between two snapshots of one (artist, title) does not
\* end the run: the later snapshot is a duplicate, nothing is published, no
\* artwork is copied and playlist.json is not rewritten, so it stays in the
\* reduced shape; it gets the song shape again only in the cycle of a track
\* whose fingerprint differed from the recorded one.
C38_PlaceholderKeepsRun ==
    /\ [][(cyc.kind = "placeholder" /\ RereadStep) =>
             /\ cyc'.kind = "duplicate"
             /\ cyc'.n_pub = ZeroCount
             /\ cyc'.n_copy = 0 /\ cyc'.n_playlist = 0
             /\ NoSideEffects
             /\ playlist'.shape = "reduced"
             /\ pc' = "idle"]_vars
    /\ [][(playlist.shape = "reduced" /\ playlist'.shape # "reduced") =>
             (cyc.kind = "new" /\ cyc.genuine)]_vars

\* a track was published and put on the web, a placeholder followed, and the
\* track has been read again: a duplicate, playlist.json still reduced
C38_Witness ==
    /\ cyc.kind = "duplicate"
    /\ cyc.fp = state.last_processed_checksum
    /\ playlist.shape = "reduced"
    /\ state.last_published_image # NoImage
    /\ state.tracks_played = 1

\* a track is extracted after another one
NextTrackStep == pc = "loaded" /\ now_playing # NoTrack

SameArtistAndTitle(t, u) == t.artist = u.artist /\ t.title = u.title

HasNoColon(str) == \A i \in 1..Len(str) : str[i] # ":"

\* C39 as stated: two extracted tracks have equal fingerprints only if they
\* have the same artist and the same cleaned title, so a track that differs
\* from the one before it in artist or title is never taken for a duplicate.
C39_FingerprintInjective ==
    [][NextTrackStep =>
          /\ Fingerprint(now_playing') = Fingerprint(now_playing) =>
                 SameArtistAndTitle(now_playing', now_playing)
          /\ cyc'.kind = "duplicate" =>
                 SameArtistAndTitle(now_playing', now_playing)]_vars

\* C39, amended: two extracted tracks whose artists hold no colon have equal
\* fingerprints only if they have the same artist and the same cleaned
\* title; a change between two such tracks is never taken for a duplicate.
C39_InjectiveWithoutColon ==
    [][(/\ NextTrackStep
        /\ HasNoColon(now_playing.artist)
        /\ HasNoColon(now_playing'.artist)) =>
          /\ Fingerprint(now_playing') = Fingerprint(now_playing) =>
                 SameArtistAndTitle(now_playing', now_playing)
          /\ cyc'.kind = "duplicate" =>
                 SameArtistAndTitle(now_playing', now_playing)
          /\ ~SameArtistAndTitle(now_playing', now_playing) =>
                 /\ cyc'.kind = "new"
                 /\ state'.last_processed_checksum = Fingerprint(now_playing')
         ]_vars

\* a track with a colon in its title and none in its artist was read twice
\* and taken for a duplicate the second time
C39_Witness ==
    /\ pc = "idle"
    /\ cyc.kind = "duplicate"
    /\ now_playing.artist = <<"a">>
    /\ now_playing.title = <<":", "a">>
    /\ state.last_processed_checksum = <<"a", ":", ":", "a">>

\* the observer's thread hands the next queued event to on_any_event
Dispatch ==
    /\ wpc = "idle"
    /\ event_queue # <<>>
    /\ event_queue' = Tail(event_queue)

\* the handling of an accepted event ends
HandlingEnds == wpc # "idle" /\ wpc' = "idle"

Outcomes == {"timeout", "invalid", "duplicate", "stable"}

\* C40: processing_lock is clear whenever the handling of an event has ended,
\* whatever the outcome (timeout, failed validation, duplicate state, callback
\* run); a created/modified event of the playout file dispatched afterwards
\* starts a new stabilization attempt; an event of another path or type
\* neither sets the flag nor starts an attempt.
C40_LockReleased ==
    /\ [](wpc = "idle" => ~processing_lock)
    /\ [][HandlingEnds => ~processing_lock' /\ obs'.result \in Outcomes]_vars
    /\ [][Dispatch =>
            IF Accepted(Head(event_queue))
            THEN processing_lock' /\ wpc' = "wait" /\ obs' = NewAttempt
            ELSE UNCHANGED <<processing_lock, wpc, obs, previous_state,
                             stable_count, elapsed>>]_vars

\* an attempt that followed a processed one ended on a duplicate state, the
\* flag is clear and the next created/modified event is queued
C40_Witness ==
    /\ wpc = "idle"
    /\ obs.result = "duplicate"
    /\ ~processing_lock
    /\ event_queue # <<>>
    /\ Accepted(Head(event_queue))

====
